---- MODULE Spec2Model ----
(***************************************************************************)
(* Model of services/ai_processor.py: the try-on orchestrator              *)
(* (process_virtual_try_on), the retrying provider client                  *)
(* (_generate_content_with_retry), the failure classifier                  *)
(* (_classify_failure, _create_failure_info) and the backoff scheduler     *)
(* (_calculate_retry_delay).                                               *)
(*                                                                         *)
(* Error texts are sequences of fragments drawn from a fixed vocabulary;   *)
(* str.lower() and the substring test `pattern in text` are tables over    *)
(* that vocabulary.  Durations are exact fixed-point numbers (see Scale).  *)
(***************************************************************************)
EXTENDS Integers, Sequences, FiniteSets, TLC

\* ------------------------------------------------------------------ bounds

\* Largest retry_config.max_retries explored.
MaxRetriesBound == 3
\* Largest number of user photos in a request (one more than the limit).
MaxPhotosInRequest == 4
\* Largest number of clothing items in a request (one more than the limit).
MaxClothingInRequest == 6
\* Largest number of fragments in a raw error text.
MaxFragments == 2
\* Largest number of tokens in a detection response text.
MaxResponseTokens == 4
\* Number of concurrent requests on one event loop.
NumTasks == 2

\* ------------------------------------------------------ python None, Min

None == "None"

Min(a, b) == IF a <= b THEN a ELSE b

RECURSIVE Pow(_, _)
Pow(b, e) == IF e <= 0 THEN 1 ELSE b * Pow(b, e - 1)

\* --------------------------------------------------- text: lower(), `in`

\* The keyword of every substring test the classifier makes.
Keywords ==
    { "quota exceeded", "quota limit", "usage limit", "billing",
      "rate limit", "too many requests", "throttled", "429",
      "timeout", "timed out", "request timeout", "deadline exceeded",
      "unauthorized", "authentication", "invalid key", "401", "403",
      "server error", "internal error", "500", "502", "503", "504",
      "content policy", "safety", "inappropriate", "blocked",
      "connection", "network", "image", "processing" }

\* Fragments that hold no keyword at all.
PlainFragments == { "oops", "incorrect padding" }

\* Fragments written with capitals; lower() maps each to a lower-case one.
CapitalFragments == { "Rate Limit", "QUOTA EXCEEDED", "Unauthorized", "Oops" }

\* The user_message texts of _create_failure_info, as fragments.
UserMessages ==
    { "AI service quota exceeded. Please try again later or upgrade your plan.",
      "Too many requests. Please wait a moment before trying again.",
      "Request timed out. The AI service is taking longer than expected.",
      "Authentication failed. Please contact support.",
      "AI service temporarily unavailable. Please try again later.",
      "Image processing failed. Please check your images and try again.",
      "Invalid request. Please check your input and try again.",
      "Content policy violation. Please use appropriate images.",
      "An unexpected error occurred. Please try again." }

\* str.lower() of one fragment.
LowerFragment(f) ==
    CASE f = "Rate Limit" -> "rate limit"
      [] f = "QUOTA EXCEEDED" -> "quota exceeded"
      [] f = "Unauthorized" -> "unauthorized"
      [] f = "Oops" -> "oops"
      [] f = "AI service quota exceeded. Please try again later or upgrade your plan."
           -> "ai service quota exceeded. please try again later or upgrade your plan."
      [] f = "Too many requests. Please wait a moment before trying again."
           -> "too many requests. please wait a moment before trying again."
      [] f = "Request timed out. The AI service is taking longer than expected."
           -> "request timed out. the ai service is taking longer than expected."
      [] f = "Authentication failed. Please contact support."
           -> "authentication failed. please contact support."
      [] f = "AI service temporarily unavailable. Please try again later."
           -> "ai service temporarily unavailable. please try again later."
      [] f = "Image processing failed. Please check your images and try again."
           -> "image processing failed. please check your images and try again."
      [] f = "Invalid request. Please check your input and try again."
           -> "invalid request. please check your input and try again."
      [] f = "Content policy violation. Please use appropriate images."
           -> "content policy violation. please use appropriate images."
      [] f = "An unexpected error occurred. Please try again."
           -> "an unexpected error occurred. please try again."
      [] f = "(Technical: " -> "(technical: "
      [] OTHER -> f

\* The keywords that occur, as substrings, in one fragment as written
\* (the test is case-sensitive: a capital fragment holds none of them).
KeywordsIn(f) ==
    CASE f = "request timeout" -> { "request timeout", "timeout" }
      [] f = "ai service quota exceeded. please try again later or upgrade your plan."
           -> { "quota exceeded" }
      [] f = "too many requests. please wait a moment before trying again."
           -> { "too many requests" }
      [] f = "request timed out. the ai service is taking longer than expected."
           -> { "timed out" }
      [] f = "authentication failed. please contact support."
           -> { "authentication" }
      [] f = "image processing failed. please check your images and try again."
           -> { "image", "processing" }
      [] f = "content policy violation. please use appropriate images."
           -> { "content policy", "image" }
      [] f \in Keywords -> { f }
      [] OTHER -> {}

\* str(error).lower()
Lower(text) == [i \in 1..Len(text) |-> LowerFragment(text[i])]

\* `pattern in text`
Contains(text, pattern) ==
    \E i \in 1..Len(text) : pattern \in KeywordsIn(text[i])

\* `any(pattern in text for pattern in patterns)`, patterns a sequence
AnyIn(text, patterns) ==
    \E k \in 1..Len(patterns) : Contains(text, patterns[k])

\* type(error).__name__ of the errors explored, and its lower() test.
TypeNames == { "Exception", "ValueError", "TimeoutError", "TypeError", "Error" }

LowerTypeName(t) ==
    CASE t = "Exception" -> "exception"
      [] t = "ValueError" -> "valueerror"
      [] t = "TimeoutError" -> "timeouterror"
      [] t = "TypeError" -> "typeerror"
      [] t = "Error" -> "error"
      [] OTHER -> t

\* `"timeout" in error_type.lower()`
TypeNameContainsTimeout(t) == LowerTypeName(t) \in { "timeouterror" }

\* ------------------------------------------------- the failure classifier

\* AIFailureType values.
AIFailureType ==
    { "api_quota_exceeded", "api_rate_limit", "api_timeout", "api_authentication",
      "api_server_error", "image_processing_error", "invalid_request",
      "content_policy_violation", "unknown_error" }

\* Mutant: the rate-limit entry comes before the quota entry.
failure_patterns_rate_limit_first ==
    << [failure_type |-> "api_rate_limit",
        patterns |-> << "rate limit", "too many requests", "throttled", "429" >>],
       [failure_type |-> "api_quota_exceeded",
        patterns |-> << "quota exceeded", "quota limit", "usage limit", "billing" >>],
       [failure_type |-> "api_timeout",
        patterns |-> << "timeout", "timed out", "request timeout", "deadline exceeded" >>],
       [failure_type |-> "api_authentication",
        patterns |-> << "unauthorized", "authentication", "invalid key", "401", "403" >>],
       [failure_type |-> "api_server_error",
        patterns |-> << "server error", "internal error", "500", "502", "503", "504" >>],
       [failure_type |-> "content_policy_violation",
        patterns |-> << "content policy", "safety", "inappropriate", "blocked" >>] >>

\* self.failure_patterns, in the dict's insertion order.
failure_patterns ==
    << [failure_type |-> "api_quota_exceeded",
        patterns |-> << "quota exceeded", "quota limit", "usage limit", "billing" >>],
       [failure_type |-> "api_rate_limit",
        patterns |-> << "rate limit", "too many requests", "throttled", "429" >>],
       [failure_type |-> "api_timeout",
        patterns |-> << "timeout", "timed out", "request timeout", "deadline exceeded" >>],
       [failure_type |-> "api_authentication",
        patterns |-> << "unauthorized", "authentication", "invalid key", "401", "403" >>],
       [failure_type |-> "api_server_error",
        patterns |-> << "server error", "internal error", "500", "502", "503", "504" >>],
       [failure_type |-> "content_policy_violation",
        patterns |-> << "content policy", "safety", "inappropriate", "blocked" >>] >>

\* The failure_messages table of _create_failure_info.
failure_messages(failure_type) ==
    CASE failure_type = "api_quota_exceeded" ->
           [user_message |-> "AI service quota exceeded. Please try again later or upgrade your plan.",
            suggested_action |-> "Wait 24 hours or contact support to increase quota limits.",
            retryable |-> TRUE, retry_after |-> 3600]
      [] failure_type = "api_rate_limit" ->
           [user_message |-> "Too many requests. Please wait a moment before trying again.",
            suggested_action |-> "Wait a few minutes and try again.",
            retryable |-> TRUE, retry_after |-> 300]
      [] failure_type = "api_timeout" ->
           [user_message |-> "Request timed out. The AI service is taking longer than expected.",
            suggested_action |-> "Try again with fewer clothing items or simpler images.",
            retryable |-> TRUE, retry_after |-> 60]
      [] failure_type = "api_authentication" ->
           [user_message |-> "Authentication failed. Please contact support.",
            suggested_action |-> "Contact support to verify your API key configuration.",
            retryable |-> FALSE, retry_after |-> -1]
      [] failure_type = "api_server_error" ->
           [user_message |-> "AI service temporarily unavailable. Please try again later.",
            suggested_action |-> "Wait a few minutes and try again.",
            retryable |-> TRUE, retry_after |-> 180]
      [] failure_type = "image_processing_error" ->
           [user_message |-> "Image processing failed. Please check your images and try again.",
            suggested_action |-> "Ensure images are clear, well-lit, and in supported formats.",
            retryable |-> TRUE, retry_after |-> 30]
      [] failure_type = "invalid_request" ->
           [user_message |-> "Invalid request. Please check your input and try again.",
            suggested_action |-> "Verify you have selected clothing items and uploaded base photos.",
            retryable |-> FALSE, retry_after |-> -1]
      [] failure_type = "content_policy_violation" ->
           [user_message |-> "Content policy violation. Please use appropriate images.",
            suggested_action |-> "Ensure all images are appropriate and follow our guidelines.",
            retryable |-> FALSE, retry_after |-> -1]
      [] OTHER ->
           [user_message |-> "An unexpected error occurred. Please try again.",
            suggested_action |-> "If the problem persists, contact support.",
            retryable |-> TRUE, retry_after |-> 60]

\* _create_failure_info(failure_type, error); retry_after -1 stands for None.
\* An error is [text |-> its str(), type_name |-> its class name].
_create_failure_info(failure_type, error) ==
    LET config == failure_messages(failure_type)
    IN  [failure_type |-> failure_type,
         error_message |-> error.text,
         retryable |-> config.retryable,
         user_friendly_message |-> config.user_message,
         suggested_action |-> config.suggested_action,
         retry_after_seconds |-> config.retry_after]

\* The loop of _classify_failure over failure_patterns from entry k on:
\* the failure_type of the first entry with a pattern in error_str, or None.
RECURSIVE FirstPatternMatch(_, _, _)
FirstPatternMatch(table, error_str, k) ==
    IF k > Len(table) THEN None
    ELSE IF AnyIn(error_str, table[k].patterns) THEN table[k].failure_type
    ELSE FirstPatternMatch(table, error_str, k + 1)

\* The failure type _classify_failure settles on.
ClassifiedType(error) ==
    LET error_str == Lower(error.text)
        error_type == error.type_name
        matched == FirstPatternMatch(failure_patterns, error_str, 1)
    IN  IF matched # None THEN matched
        ELSE IF TypeNameContainsTimeout(error_type) \/ Contains(error_str, "timeout")
             THEN "api_timeout"
        ELSE IF Contains(error_str, "connection") \/ Contains(error_str, "network")
             THEN "api_server_error"
        ELSE IF Contains(error_str, "image") \/ Contains(error_str, "processing")
             THEN "image_processing_error"
        ELSE "unknown_error"

\* _classify_failure(error)
_classify_failure(error) == _create_failure_info(ClassifiedType(error), error)

\* --------------------------------------------------- the backoff scheduler

\* Durations are fixed-point: base_delay and max_delay of a RetryConfig are in
\* tenths of a second, a delay is in 1/Scale of that, backoff_multiplier is the
\* fraction num/den with den 1 or 2, and a jitter draw is in hundredths.
\* Scale makes every delay the scheduler computes an exact integer.
Scale == 100 * Pow(2, MaxRetriesBound + 1)

\* RetryConfig(): the dataclass defaults.
DefaultRetryConfig ==
    [max_retries |-> 3, base_delay |-> 10, max_delay |-> 600,
     backoff_multiplier |-> [num |-> 2, den |-> 1], jitter |-> TRUE]

\* Values random.uniform(0.1, 0.3) can draw, in hundredths.
JitterDraws == { 10, 15, 20, 30 }

\* The draws explored inside the retry loop: the two ends of the interval.
LoopJitterDraws == { 10, 30 }

\* Mutant: the exponent is attempt, not attempt - 1.
_calculate_retry_delay_exponent_attempt(attempt, config, draw) ==
    IF attempt = 0 THEN 0
    ELSE LET m == config.backoff_multiplier
             exponential == (config.base_delay * Scale * Pow(m.num, attempt))
                                \div Pow(m.den, attempt)
             capped == Min(exponential, config.max_delay * Scale)
         IN  IF config.jitter THEN capped + (draw * capped) \div 100 ELSE capped

\* Mutant: the jitter is taken from the delay before the cap.
_calculate_retry_delay_jitter_before_cap(attempt, config, draw) ==
    IF attempt = 0 THEN 0
    ELSE LET m == config.backoff_multiplier
             exponential == (config.base_delay * Scale * Pow(m.num, attempt - 1))
                                \div Pow(m.den, attempt - 1)
             capped == Min(exponential, config.max_delay * Scale)
         IN  IF config.jitter THEN capped + (draw * exponential) \div 100 ELSE capped

\* _calculate_retry_delay(attempt), with the policy and the jitter draw it reads.
_calculate_retry_delay(attempt, config, draw) ==
    IF attempt = 0 THEN 0
    ELSE LET m == config.backoff_multiplier
             exponential == (config.base_delay * Scale * Pow(m.num, attempt - 1))
                                \div Pow(m.den, attempt - 1)
             capped == Min(exponential, config.max_delay * Scale)
         IN  IF config.jitter THEN capped + (draw * capped) \div 100 ELSE capped

\* ------------------------------------------------------------------ state

VARIABLES
    pc,                       \* where control is
    request,                  \* the VirtualTryOnRequest
    retry_config,             \* self.retry_config
    idx,                      \* position of the running for loop of _prepare_images_for_ai
    processed_user_photos,    \* _prepare_images_for_ai: the list being built
    processed_clothing_items, \* _prepare_images_for_ai: the list being built
    prompt,                   \* _generate_virtual_try_on: the prompt
    content_parts,            \* _generate_virtual_try_on: the content list
    content,                  \* _generate_content_with_retry: the content argument
    max_retries,              \* _generate_content_with_retry: resolved max_retries
    attempt,                  \* _generate_content_with_retry: loop variable
    last_error,               \* _generate_content_with_retry: last_error
    last_failure_info,        \* _generate_content_with_retry: last_failure_info
    delay,                    \* the delay of the asyncio.sleep in progress, 0 when none is
    response,                 \* response.text of the successful provider call
    exc,                      \* the exception in flight inside process_virtual_try_on
    result,                   \* the VirtualTryOnResult returned
    prep_calls,               \* calls made to the image-preparation collaborator
    provider_calls,           \* calls made to model.generate_content
    sent,                     \* the argument of the last generate_content call
    only_rate_limit,          \* every provider call so far failed with "rate limit" in its message
    detection,                \* the ClothingDetectionResult returned
    elapsed,                  \* tenths of a second since start_time, Untracked where no clock is followed
    loop,                     \* the asyncio event loop and its request tasks
    call,                     \* the arguments of a call of a response builder of utils
    envelope                  \* the dict the response builder returned

vars ==
    << pc, request, retry_config, idx, processed_user_photos, processed_clothing_items,
       prompt, content_parts, content, max_retries, attempt, last_error,
       last_failure_info, delay, response, exc, result, prep_calls, provider_calls,
       sent, only_rate_limit, detection, elapsed, loop, call, envelope >>

\* ------------------------------------------------------------ data values

\* No detection has been returned.
NoDetection == [returned |-> FALSE]

\* The runs that follow no clock.
Untracked == -1

\* No task is scheduled on the event loop.
NoLoop == [running |-> 0, tasks |-> << >>]

\* No response builder is called.
NoCall == [function |-> None]
NoEnvelope == << >>

NoError == [text |-> << >>, type_name |-> None]

NoFailureInfo ==
    [failure_type |-> None, error_message |-> << >>, retryable |-> FALSE,
     user_friendly_message |-> None, suggested_action |-> None,
     retry_after_seconds |-> -1]

NoMetadata == [kind |-> None]

NoResult ==
    [success |-> FALSE, generated_image |-> None, processing_time |-> None,
     error |-> None, retry_count |-> 0, metadata |-> NoMetadata, returned |-> FALSE]

\* VirtualTryOnResult(...): the dataclass with its defaults.
VirtualTryOnResult(success, generated_image, processing_time, error, metadata) ==
    [success |-> success, generated_image |-> generated_image,
     processing_time |-> processing_time, error |-> error, retry_count |-> 0,
     metadata |-> metadata, returned |-> TRUE]

\* base64: encode wraps, decode unwraps.
B64Encode(bytes) == [b64 |-> bytes]
B64Decode(text) == text.b64

\* The i-th user photo and clothing item of a request, as raw bytes.
PhotoBytes(i) == [role |-> "photo", n |-> i]
ClothingBytes(i) == [role |-> "clothing", n |-> i]

\* Requests: n photos and m clothing items, base64 encoded.
Request(n, m) ==
    [user_base_photos |-> [i \in 1..n |-> B64Encode(PhotoBytes(i))],
     clothing_items |-> [i \in 1..m |-> B64Encode(ClothingBytes(i))],
     session_id |-> "session", user_id |-> "user"]

\* What the image-preparation collaborator returns on success for raw bytes.
ProcessedImage(bytes) == [processed |-> bytes]

\* What preparing one buffer can do: b64decode raises, the collaborator raises,
\* the collaborator reports failure, the collaborator succeeds.
PrepOutcomes == { "decode_error", "raise", "fail", "ok" }

DecodeError == [text |-> << "incorrect padding" >>, type_name |-> "Error"]
CollaboratorError == [text |-> << "image", "oops" >>, type_name |-> "ValueError"]

\* Errors a provider call raises in the orchestrator runs.
ProviderErrors ==
    { [text |-> << "rate limit" >>, type_name |-> "Exception"],
      [text |-> << "Rate Limit" >>, type_name |-> "Exception"],
      [text |-> << "quota exceeded", "rate limit" >>, type_name |-> "Exception"],
      [text |-> << "Unauthorized" >>, type_name |-> "Exception"],
      [text |-> << "blocked" >>, type_name |-> "ValueError"],
      [text |-> << "oops" >>, type_name |-> "TimeoutError"],
      [text |-> << "503" >>, type_name |-> "Exception"],
      [text |-> << "oops" >>, type_name |-> "Exception"] }

\* Texts a successful provider call returns.
ResponseTexts == { "text-a", "text-b" }

\* _extract_generated_image: the fixed placeholder, whatever the response.
_extract_generated_image(text) == "data:image/jpeg;base64,placeholder"

\* _create_virtual_try_on_prompt(user_photos_count, clothing_count)
_create_virtual_try_on_prompt(user_photos_count, clothing_count) ==
    [template |-> "virtual_try_on", user_photos_count |-> user_photos_count,
     clothing_count |-> clothing_count]

\* One inline image part of the content list.
InlinePart(data) == [inline_data |-> [data |-> data, mime_type |-> "image/jpeg"]]

\* The content argument of _generate_content_with_retry: a str (one base64
\* image) or a list of parts; is_str is what isinstance(content, str) reads.
StrContent(data) == [is_str |-> TRUE, value |-> data]
ListContent(parts) == [is_str |-> FALSE, value |-> parts]
NoContent == [is_str |-> FALSE, value |-> << >>]

\* max_retries: int = None, the argument left out.
DefaultArgument == -1

\* The limits _validate_request enforces.
MaxUserPhotos == 3
MaxClothingItems == 5

\* Mutant: the clothing-item limit is not checked.
_validate_request_no_clothing_limit(req) ==
    IF Len(req.user_base_photos) = 0
    THEN [valid |-> FALSE, error |-> "No user base photos provided"]
    ELSE IF Len(req.clothing_items) = 0
    THEN [valid |-> FALSE, error |-> "No clothing items selected"]
    ELSE IF Len(req.user_base_photos) > MaxUserPhotos
    THEN [valid |-> FALSE, error |-> "Too many user base photos (max 3)"]
    ELSE [valid |-> TRUE, error |-> None]

\* _validate_request(request)
_validate_request(req) ==
    IF Len(req.user_base_photos) = 0
    THEN [valid |-> FALSE, error |-> "No user base photos provided"]
    ELSE IF Len(req.clothing_items) = 0
    THEN [valid |-> FALSE, error |-> "No clothing items selected"]
    ELSE IF Len(req.user_base_photos) > MaxUserPhotos
    THEN [valid |-> FALSE, error |-> "Too many user base photos (max 3)"]
    ELSE IF Len(req.clothing_items) > MaxClothingItems
    THEN [valid |-> FALSE, error |-> "Too many clothing items (max 5)"]
    ELSE [valid |-> TRUE, error |-> None]

\* Mutant: the clause is `except ValueError`.
CaughtByExceptValueError(type_name) == type_name = "ValueError"

\* `except Exception`: the classes it catches among those explored.
CaughtByExceptException(type_name) == type_name \in TypeNames

\* ------------------------------------------- process_virtual_try_on: Init

Init ==
    /\ pc = "validating"
    /\ \E n \in 0..MaxPhotosInRequest, m \in 0..MaxClothingInRequest :
          request = Request(n, m)
    /\ retry_config = DefaultRetryConfig
    /\ idx = 1
    /\ processed_user_photos = << >>
    /\ processed_clothing_items = << >>
    /\ prompt = None
    /\ content_parts = << >>
    /\ content = NoContent
    /\ max_retries = DefaultArgument
    /\ attempt = 0
    /\ last_error = NoError
    /\ last_failure_info = NoFailureInfo
    /\ delay = 0
    /\ response = None
    /\ exc = NoError
    /\ result = NoResult
    /\ prep_calls = 0
    /\ provider_calls = 0
    /\ sent = << >>
    /\ only_rate_limit = TRUE
    /\ detection = NoDetection
    /\ elapsed = Untracked
    /\ loop = NoLoop
    /\ call = NoCall
    /\ envelope = NoEnvelope

prepVars == << idx, processed_user_photos, processed_clothing_items, prep_calls >>
retryVars ==
    << prompt, content_parts, content, max_retries, attempt, last_error,
       last_failure_info, delay, response, provider_calls, sent, only_rate_limit >>

\* process_virtual_try_on, lines 141-148: validation, and the early return.
Validate ==
    /\ pc = "validating"
    /\ LET validation_result == _validate_request(request)
       IN  IF ~validation_result.valid
           THEN /\ result' = VirtualTryOnResult(FALSE, None, None,
                                                validation_result.error, NoMetadata)
                /\ pc' = "done"
           ELSE /\ pc' = "preparing_photos"
                /\ result' = result
    /\ UNCHANGED << detection, elapsed, loop, call, envelope >>
    /\ UNCHANGED << request, retry_config, exc >>
    /\ UNCHANGED prepVars
    /\ UNCHANGED retryVars

\* One iteration of a for loop of _prepare_images_for_ai over `buffers`:
\* decode, prepare, append on success; `next_pc` follows the last iteration.
PrepareOne(buffers, processed, next_pc) ==
    \E outcome \in PrepOutcomes :
       LET data == B64Decode(buffers[idx])
           last == idx = Len(buffers)
       IN  /\ prep_calls' = IF outcome = "decode_error" THEN prep_calls ELSE prep_calls + 1
           /\ IF outcome \in { "decode_error", "raise" }
              THEN /\ exc' = IF outcome = "decode_error" THEN DecodeError
                                                         ELSE CollaboratorError
                   /\ pc' = "raised"
                   /\ idx' = idx
                   /\ processed' = processed
              ELSE /\ processed' = IF outcome = "ok"
                                   THEN Append(processed, B64Encode(ProcessedImage(data)))
                                   ELSE processed
                   /\ idx' = IF last THEN 1 ELSE idx + 1
                   /\ pc' = IF last THEN next_pc ELSE pc
                   /\ exc' = exc

\* Mutant: a role left empty by the preparation ends the request.
AfterPreparation_RejectsEmptyRole(photos, items) ==
    IF Len(photos) = 0 \/ Len(items) = 0 THEN "done" ELSE "generating"

\* Lines 151-154: nothing between the preparation and the generation reads how
\* many images were kept.
AfterPreparation(photos, items) == "generating"

\* _prepare_images_for_ai, lines 247-253: one user photo.
PreparePhoto ==
    /\ pc = "preparing_photos"
    /\ PrepareOne(request.user_base_photos, processed_user_photos, "preparing_clothing")
    /\ UNCHANGED << detection, elapsed, loop, call, envelope >>
    /\ UNCHANGED << request, retry_config, processed_clothing_items, result >>
    /\ UNCHANGED retryVars

\* _prepare_images_for_ai, lines 256-262: one clothing item.
PrepareClothing ==
    /\ pc = "preparing_clothing"
    /\ PrepareOne(request.clothing_items, processed_clothing_items,
                  AfterPreparation(processed_user_photos, processed_clothing_items'))
    /\ UNCHANGED << detection, elapsed, loop, call, envelope >>
    /\ UNCHANGED << request, retry_config, processed_user_photos, result >>
    /\ UNCHANGED retryVars

\* _generate_virtual_try_on, lines 276-301: the prompt, the content list and the
\* call _generate_content_with_retry(prompt, content_parts).
BuildContent ==
    /\ pc = "generating"
    /\ LET p == _create_virtual_try_on_prompt(Len(processed_user_photos),
                                              Len(processed_clothing_items))
           parts == << p >> \o [i \in 1..Len(processed_user_photos) |->
                                   InlinePart(processed_user_photos[i])]
                            \o [i \in 1..Len(processed_clothing_items) |->
                                   InlinePart(processed_clothing_items[i])]
       IN  /\ prompt' = p
           /\ content_parts' = parts
           /\ content' = ListContent(parts)
    /\ max_retries' = DefaultArgument
    /\ pc' = "retry_entry"
    /\ UNCHANGED << detection, elapsed, loop, call, envelope >>
    /\ UNCHANGED << request, retry_config, attempt, last_error, last_failure_info,
                    delay, response, exc, result, provider_calls, sent, only_rate_limit >>
    /\ UNCHANGED prepVars

\* ------------------------------------------- _generate_content_with_retry

\* How long a provider call can take, in tenths of a second.
CallDurations == { 10, 350 }

\* The clock `duration` tenths of a second after it read t.
Later(t, duration) == IF t = Untracked THEN Untracked ELSE t + duration

\* `for attempt in range(max_retries + 1)`: whether index a is in the range.
InRange(a, retries) == a < retries + 1

\* Mutant: the loop variable does not advance.
NextAttempt_Stuck(a) == a

\* `for attempt in range(...)`: the index after a.
NextAttempt(a) == a + 1

\* Mutant: one retry too few.
ShouldRetry_OffByOne(a, retries, failure_info) ==
    a + 1 < retries /\ failure_info.retryable

\* Mutant: the retryable flag is not read.
ShouldRetry_IgnoresRetryable(a, retries, failure_info) == a < retries

\* Line 342: whether the failed attempt is retried.
ShouldRetry(a, retries, failure_info) == a < retries /\ failure_info.retryable

\* Mutant: the task sleeps for the retry-after of the failure kind.
SleepDelay_RetryAfter(a, config, draw, failure_info) ==
    failure_info.retry_after_seconds * 10 * Scale

\* Line 343: the delay slept after the failure of attempt a.
SleepDelay(a, config, draw, failure_info) == _calculate_retry_delay(a, config, draw)

\* Mutant: the first failure is kept, later ones are not recorded.
LastFailure_KeepsFirst(previous_info, info) ==
    IF previous_info.failure_type = None THEN info ELSE previous_info

\* Line 339: the assignment replaces what last_failure_info held.
LastFailure(previous_info, info) == info

\* Mutant: the response is not returned, and the loop calls again.
PcAfterSuccess_NoReturn == "attempt"

\* Line 335: `return response.text` leaves the loop and the function.
PcAfterSuccess == "returned"

\* Lines 323-333: the argument of generate_content, for a str and for a list.
ProviderArgument(p, c) ==
    IF c.is_str THEN << p, InlinePart(c.value) >> ELSE << p >> \o c.value

\* Mutant: the exception carries the raw text without the user message.
FinalException_RawTextOnly(failure_info) ==
    [text |-> failure_info.error_message, type_name |-> "Exception"]

\* Lines 351-354: the exception raised after the loop.
FinalException(failure_info) ==
    [text |-> << failure_info.user_friendly_message, "(Technical: " >>
                 \o failure_info.error_message \o << ")" >>,
     type_name |-> "Exception"]

\* Lines 315-321: max_retries resolved, the locals set, the loop entered.
EnterRetry ==
    /\ pc = "retry_entry"
    /\ LET retries == IF max_retries = DefaultArgument
                      THEN retry_config.max_retries ELSE max_retries
       IN  /\ max_retries' = retries
           /\ pc' = IF InRange(0, retries) THEN "attempt" ELSE "exhausted"
    /\ attempt' = 0
    /\ last_error' = NoError
    /\ last_failure_info' = NoFailureInfo
    /\ UNCHANGED << detection, elapsed, loop, call, envelope >>
    /\ UNCHANGED << request, retry_config, prompt, content_parts, content, delay,
                    response, exc, result, provider_calls, sent, only_rate_limit >>
    /\ UNCHANGED prepVars

\* Lines 321-348: one provider call and what follows it, up to the return, the
\* sleep or the break.
ProviderCall ==
    /\ pc = "attempt"
    /\ provider_calls' = provider_calls + 1
    /\ sent' = ProviderArgument(prompt, content)
    /\ \/ \E text \in ResponseTexts :
             /\ response' = text
             /\ pc' = PcAfterSuccess
             /\ only_rate_limit' = FALSE
             /\ UNCHANGED << last_error, last_failure_info, delay >>
       \/ \E e \in ProviderErrors, draw \in LoopJitterDraws :
             LET info == _classify_failure(e)
             IN  /\ last_error' = e
                 /\ last_failure_info' = LastFailure(last_failure_info, info)
                 /\ only_rate_limit' =
                       (only_rate_limit /\ Contains(Lower(e.text), "rate limit"))
                 /\ IF ShouldRetry(attempt, max_retries, info)
                    THEN /\ delay' = SleepDelay(attempt, retry_config, draw, info)
                         /\ pc' = "sleeping"
                    ELSE /\ delay' = delay
                         /\ pc' = "exhausted"
                 /\ response' = response
    /\ \E duration \in CallDurations : elapsed' = Later(elapsed, duration)
    /\ UNCHANGED << detection, loop, call, envelope >>
    /\ UNCHANGED << request, retry_config, prompt, content_parts, content,
                    max_retries, attempt, exc, result >>
    /\ UNCHANGED prepVars

\* Line 345 returns: asyncio.sleep(delay) is over, the loop goes on.
WakeUp ==
    /\ pc = "sleeping"
    /\ attempt' = NextAttempt(attempt)
    /\ delay' = 0
    /\ elapsed' = Later(elapsed, delay \div Scale)
    /\ pc' = IF InRange(NextAttempt(attempt), max_retries) THEN "attempt" ELSE "exhausted"
    /\ UNCHANGED << detection, loop, call, envelope >>
    /\ UNCHANGED << request, retry_config, prompt, content_parts, content,
                    max_retries, last_error, last_failure_info, response, exc,
                    result, provider_calls, sent, only_rate_limit >>
    /\ UNCHANGED prepVars

\* Lines 350-356: the loop ended without a return; the exception goes to the caller.
RaiseFinal ==
    /\ pc = "exhausted"
    /\ exc' = IF last_failure_info.failure_type # None
              THEN FinalException(last_failure_info)
              ELSE [text |-> << "exceptions must derive from BaseException" >>,
                    type_name |-> "TypeError"]
    /\ pc' = "raised"
    /\ UNCHANGED << detection, elapsed, loop, call, envelope >>
    /\ UNCHANGED << request, retry_config, result >>
    /\ UNCHANGED prepVars
    /\ UNCHANGED retryVars

\* ------------------------------------- process_virtual_try_on: the returns

\* Lines 304-306 and 159-171: the success result.
ReturnSuccess ==
    /\ pc = "returned"
    /\ result' = VirtualTryOnResult(TRUE, _extract_generated_image(response),
                    "elapsed", None,
                    [kind |-> "success",
                     session_id |-> request.session_id,
                     user_id |-> request.user_id,
                     user_photos_count |-> Len(request.user_base_photos),
                     clothing_items_count |-> Len(request.clothing_items)])
    /\ pc' = "done"
    /\ UNCHANGED << detection, elapsed, loop, call, envelope >>
    /\ UNCHANGED << request, retry_config, exc >>
    /\ UNCHANGED prepVars
    /\ UNCHANGED retryVars

\* Lines 173-190: the except clause; an exception it does not catch leaves
\* process_virtual_try_on.
HandleException ==
    /\ pc = "raised"
    /\ IF CaughtByExceptException(exc.type_name)
       THEN LET failure_info == _classify_failure(exc)
            IN  /\ result' = VirtualTryOnResult(FALSE, None, "elapsed",
                                failure_info.user_friendly_message,
                                [kind |-> "failure",
                                 failure_type |-> failure_info.failure_type,
                                 suggested_action |-> failure_info.suggested_action,
                                 retryable |-> failure_info.retryable,
                                 retry_after_seconds |-> failure_info.retry_after_seconds,
                                 technical_error |-> failure_info.error_message])
                /\ pc' = "done"
       ELSE /\ pc' = "escaped"
            /\ result' = result
    /\ UNCHANGED << detection, elapsed, loop, call, envelope >>
    /\ UNCHANGED << request, retry_config, exc >>
    /\ UNCHANGED prepVars
    /\ UNCHANGED retryVars

\* --------------------------------------------------------- specifications

\* One call of process_virtual_try_on.
Next ==
    \/ Validate
    \/ PreparePhoto
    \/ PrepareClothing
    \/ BuildContent
    \/ EnterRetry
    \/ ProviderCall
    \/ WakeUp
    \/ RaiseFinal
    \/ ReturnSuccess
    \/ HandleException

Spec == Init /\ [][Next]_vars

\* One call of _generate_content_with_retry(prompt, content, max_retries), which
\* ends when it returns ("returned") or raises ("raised") to its caller.
InitRetry ==
    /\ pc = "retry_entry"
    /\ request = Request(1, 1)
    /\ retry_config = DefaultRetryConfig
    /\ idx = 1
    /\ processed_user_photos = << >>
    /\ processed_clothing_items = << >>
    /\ prompt = _create_virtual_try_on_prompt(1, 1)
    /\ content_parts = << >>
    /\ content \in { StrContent(B64Encode(ProcessedImage(ClothingBytes(1)))),
                     ListContent(<< InlinePart(B64Encode(ProcessedImage(PhotoBytes(1)))) >>) }
    /\ max_retries \in { DefaultArgument } \cup 0..MaxRetriesBound
    /\ attempt = 0
    /\ last_error = NoError
    /\ last_failure_info = NoFailureInfo
    /\ delay = 0
    /\ response = None
    /\ exc = NoError
    /\ result = NoResult
    /\ prep_calls = 0
    /\ provider_calls = 0
    /\ sent = << >>
    /\ only_rate_limit = TRUE
    /\ detection = NoDetection
    /\ elapsed = Untracked
    /\ loop = NoLoop
    /\ call = NoCall
    /\ envelope = NoEnvelope

NextRetry ==
    \/ EnterRetry
    \/ ProviderCall
    \/ WakeUp
    \/ RaiseFinal

SpecRetry == InitRetry /\ [][NextRetry]_vars

\* asyncio resumes a coroutine whose sleep is over and a called function runs on:
\* a step that can be taken is eventually taken.
FairSpecRetry == SpecRetry /\ WF_vars(NextRetry)

\* self.max_processing_time, in seconds; nothing in the class reads it.
max_processing_time == 60

\* One call of _generate_content_with_retry by the orchestrator, with the clock
\* followed from start_time.
InitCeiling ==
    /\ pc = "retry_entry"
    /\ request = Request(1, 1)
    /\ retry_config = DefaultRetryConfig
    /\ idx = 1
    /\ processed_user_photos = << >>
    /\ processed_clothing_items = << >>
    /\ prompt = _create_virtual_try_on_prompt(1, 1)
    /\ content_parts = << >>
    /\ content = ListContent(<< InlinePart(B64Encode(ProcessedImage(PhotoBytes(1)))) >>)
    /\ max_retries \in { DefaultArgument, MaxRetriesBound }
    /\ attempt = 0
    /\ last_error = NoError
    /\ last_failure_info = NoFailureInfo
    /\ delay = 0
    /\ response = None
    /\ exc = NoError
    /\ result = NoResult
    /\ prep_calls = 0
    /\ provider_calls = 0
    /\ sent = << >>
    /\ only_rate_limit = TRUE
    /\ detection = NoDetection
    /\ elapsed = 0
    /\ loop = NoLoop
    /\ call = NoCall
    /\ envelope = NoEnvelope

SpecCeiling == InitCeiling /\ [][NextRetry]_vars

\* Policies of the retry client runs that follow the delays: the default, one
\* whose max_delay caps the second delay, one without jitter.
BackoffPolicies ==
    { DefaultRetryConfig,
      [max_retries |-> 3, base_delay |-> 10, max_delay |-> 15,
       backoff_multiplier |-> [num |-> 2, den |-> 1], jitter |-> TRUE],
      [max_retries |-> 3, base_delay |-> 10, max_delay |-> 600,
       backoff_multiplier |-> [num |-> 3, den |-> 2], jitter |-> FALSE] }

\* One call of _generate_content_with_retry under one of these policies.
InitBackoff ==
    /\ pc = "retry_entry"
    /\ request = Request(1, 1)
    /\ retry_config \in BackoffPolicies
    /\ idx = 1
    /\ processed_user_photos = << >>
    /\ processed_clothing_items = << >>
    /\ prompt = _create_virtual_try_on_prompt(1, 1)
    /\ content_parts = << >>
    /\ content = ListContent(<< InlinePart(B64Encode(ProcessedImage(PhotoBytes(1)))) >>)
    /\ max_retries \in { DefaultArgument, MaxRetriesBound }
    /\ attempt = 0
    /\ last_error = NoError
    /\ last_failure_info = NoFailureInfo
    /\ delay = 0
    /\ response = None
    /\ exc = NoError
    /\ result = NoResult
    /\ prep_calls = 0
    /\ provider_calls = 0
    /\ sent = << >>
    /\ only_rate_limit = TRUE
    /\ detection = NoDetection
    /\ elapsed = Untracked
    /\ loop = NoLoop
    /\ call = NoCall
    /\ envelope = NoEnvelope

SpecBackoff == InitBackoff /\ [][NextRetry]_vars

\* The variables no step of a pure-function run touches, at rest.
AtRest ==
    /\ request = Request(1, 1)
    /\ idx = 1
    /\ processed_user_photos = << >>
    /\ processed_clothing_items = << >>
    /\ prompt = None
    /\ content_parts = << >>
    /\ content = NoContent
    /\ max_retries = DefaultArgument
    /\ response = None
    /\ exc = NoError
    /\ result = NoResult
    /\ prep_calls = 0
    /\ provider_calls = 0
    /\ sent = << >>
    /\ only_rate_limit = TRUE
    /\ detection = NoDetection
    /\ elapsed = Untracked
    /\ loop = NoLoop
    /\ call = NoCall
    /\ envelope = NoEnvelope

\* Raw error texts: up to MaxFragments fragments, with and without capitals.
Fragments == Keywords \cup PlainFragments \cup CapitalFragments

RECURSIVE TextsOfLength(_)
TextsOfLength(n) ==
    IF n = 0 THEN { << >> }
    ELSE { Append(t, f) : t \in TextsOfLength(n - 1), f \in Fragments }

RawTexts == UNION { TextsOfLength(n) : n \in 0..MaxFragments }

\* The exception classes explored by the classifier runs.
ClassifiedTypeNames == { "Exception", "TimeoutError" }

\* One call of _classify_failure(error), on any raw error.
InitClassify ==
    /\ pc = "classify"
    /\ \E t \in RawTexts, n \in ClassifiedTypeNames :
          last_error = [text |-> t, type_name |-> n]
    /\ last_failure_info = NoFailureInfo
    /\ retry_config = DefaultRetryConfig
    /\ attempt = 0
    /\ delay = 0
    /\ AtRest

Classify ==
    /\ pc = "classify"
    /\ last_failure_info' = _classify_failure(last_error)
    /\ pc' = "classified"
    /\ UNCHANGED << detection, elapsed, loop, call, envelope >>
    /\ UNCHANGED << request, retry_config, exc, result, prompt, content_parts, content,
                    max_retries, attempt, last_error, delay, response, provider_calls,
                    sent, only_rate_limit >>
    /\ UNCHANGED prepVars

NextClassify == Classify

SpecClassify == InitClassify /\ [][NextClassify]_vars

\* The retry client after its only attempt (max_retries 0) failed with any raw
\* error: the loop is over, the final failure is raised and the orchestrator
\* handles it.
InitSurface ==
    /\ pc = "exhausted"
    /\ \E t \in RawTexts, n \in ClassifiedTypeNames :
          /\ last_error = [text |-> t, type_name |-> n]
          /\ last_failure_info = _classify_failure([text |-> t, type_name |-> n])
    /\ retry_config = DefaultRetryConfig
    /\ request = Request(1, 1)
    /\ idx = 1
    /\ processed_user_photos = << >>
    /\ processed_clothing_items = << >>
    /\ prompt = _create_virtual_try_on_prompt(1, 1)
    /\ content_parts = << >>
    /\ content = ListContent(<< InlinePart(B64Encode(ProcessedImage(PhotoBytes(1)))) >>)
    /\ max_retries = 0
    /\ attempt = 0
    /\ delay = 0
    /\ response = None
    /\ exc = NoError
    /\ result = NoResult
    /\ prep_calls = 0
    /\ provider_calls = 1
    /\ sent = ProviderArgument(prompt, content)
    /\ only_rate_limit = FALSE
    /\ detection = NoDetection
    /\ elapsed = Untracked
    /\ loop = NoLoop
    /\ call = NoCall
    /\ envelope = NoEnvelope

NextSurface == RaiseFinal \/ HandleException

SpecSurface == InitSurface /\ [][NextSurface]_vars

\* The retry policies explored by the scheduler runs.
Policies ==
    { [max_retries |-> 3, base_delay |-> b, max_delay |-> c,
       backoff_multiplier |-> m, jitter |-> j] :
         b \in { -5, 0, 5, 10 }, c \in { 15, 40, 600 },
         m \in { [num |-> 1, den |-> 2], [num |-> 1, den |-> 1], [num |-> 3, den |-> 2],
                 [num |-> 2, den |-> 1], [num |-> 3, den |-> 1] },
         j \in BOOLEAN }

\* One call of _calculate_retry_delay(attempt), under any policy.
InitDelay ==
    /\ pc = "delay"
    /\ attempt \in 0..(MaxRetriesBound + 1)
    /\ retry_config \in Policies
    /\ delay = 0
    /\ last_error = NoError
    /\ last_failure_info = NoFailureInfo
    /\ AtRest

CalculateDelay ==
    /\ pc = "delay"
    /\ \E draw \in JitterDraws :
          delay' = _calculate_retry_delay(attempt, retry_config, draw)
    /\ pc' = "delayed"
    /\ UNCHANGED << detection, elapsed, loop, call, envelope >>
    /\ UNCHANGED << request, retry_config, exc, result, prompt, content_parts, content,
                    max_retries, attempt, last_error, last_failure_info, response,
                    provider_calls, sent, only_rate_limit >>
    /\ UNCHANGED prepVars

NextDelay == CalculateDelay

SpecDelay == InitDelay /\ [][NextDelay]_vars

\* ------------------------------------------ _parse_clothing_detection_response

\* ClothingDetectionResult(...); confidence is held in tenths (5 is 0.5).
ClothingDetectionResult(is_clothing, category, quality, suitable, confidence) ==
    [is_clothing |-> is_clothing, category |-> category, quality |-> quality,
     suitable |-> suitable, confidence |-> confidence, returned |-> TRUE]

\* A response text is a sequence of tokens: the two braces, JSON members
\* (each with the comma that separates it from the next) and plain words.
MemberTokens == { "\"is_clothing\": true", "\"quality\": \"good\"" }
WordTokens == { "shirt", "Dress", "hello" }
ResponseTokens == { "{", "}" } \cup MemberTokens \cup WordTokens

\* The member a member token spells.
Member(token) ==
    IF token = "\"is_clothing\": true"
    THEN [key |-> "is_clothing", value |-> TRUE]
    ELSE [key |-> "quality", value |-> "good"]

\* str.lower() of one token.
LowerToken(token) == IF token = "Dress" THEN "dress" ELSE token

\* The words of the fallback scan.
DetectionWords == { "shirt", "pants", "dress", "shoes", "clothing" }

\* Which of the scanned words occur in a token, letter case respected.
DetectionWordsIn(token) ==
    CASE token = "shirt" -> { "shirt" }
      [] token = "dress" -> { "dress" }
      [] token = "\"is_clothing\": true" -> { "clothing" }
      [] OTHER -> { }

\* str.find and str.rfind: the 0-based position of a token, -1 when absent.
Find(text, token) ==
    IF \E i \in 1..Len(text) : text[i] = token
    THEN (CHOOSE i \in 1..Len(text) :
             text[i] = token /\ \A j \in 1..(i - 1) : text[j] # token) - 1
    ELSE -1

RFind(text, token) ==
    IF \E i \in 1..Len(text) : text[i] = token
    THEN (CHOOSE i \in 1..Len(text) :
             text[i] = token /\ \A j \in (i + 1)..Len(text) : text[j] # token) - 1
    ELSE -1

\* text[a:b] for 0 <= a and 0 <= b.
Slice(text, a, b) == SubSeq(text, a + 1, b)

\* The dict of a sequence of members: a later member replaces an earlier one.
RECURSIVE DictOf(_)
DictOf(members) ==
    IF Len(members) = 0 THEN << >>
    ELSE LET m == Member(members[Len(members)])
         IN  (m.key :> m.value) @@ DictOf(SubSeq(members, 1, Len(members) - 1))

\* json.loads: the text is an object when it is a brace, members, a brace;
\* anything else raises.
JsonLoads(text) ==
    LET n == Len(text)
        ok == /\ n >= 2
              /\ text[1] = "{"
              /\ text[n] = "}"
              /\ \A i \in 2..(n - 1) : text[i] \in MemberTokens
    IN  [ok |-> ok, data |-> IF ok THEN DictOf(SubSeq(text, 2, n - 1)) ELSE << >>]

\* dict.get(key, default)
Get(data, key, default) == IF key \in DOMAIN data THEN data[key] ELSE default

\* Mutant: the scan reads the response as it is, without lower().
_fallback_parse_detection_case_sensitive(text) ==
    LET is_clothing == \E i \in 1..Len(text) : DetectionWordsIn(text[i]) # { }
    IN  ClothingDetectionResult(is_clothing, "unknown", "fair", is_clothing,
                                IF is_clothing THEN 5 ELSE 0)

\* _fallback_parse_detection(response)
_fallback_parse_detection(text) ==
    LET response_lower == [i \in 1..Len(text) |-> LowerToken(text[i])]
        is_clothing == \E i \in 1..Len(text), word \in DetectionWords :
                          word \in DetectionWordsIn(response_lower[i])
    IN  ClothingDetectionResult(is_clothing, "unknown", "fair", is_clothing,
                                IF is_clothing THEN 5 ELSE 0)

\* _parse_clothing_detection_response(response)
_parse_clothing_detection_response(text) ==
    LET json_start == Find(text, "{")
        json_end == RFind(text, "}") + 1
    IN  IF json_start # -1 /\ json_end # -1
        THEN LET loaded == JsonLoads(Slice(text, json_start, json_end))
             IN  IF loaded.ok
                 THEN ClothingDetectionResult(Get(loaded.data, "is_clothing", FALSE),
                                              Get(loaded.data, "category", "unknown"),
                                              Get(loaded.data, "quality", "poor"),
                                              Get(loaded.data, "suitable", FALSE),
                                              Get(loaded.data, "confidence", 0))
                 ELSE ClothingDetectionResult(FALSE, "unknown", "poor", FALSE, 0)
        ELSE _fallback_parse_detection(text)

\* The response texts explored by the parser runs.
RECURSIVE ResponsesOfLength(_)
ResponsesOfLength(n) ==
    IF n = 0 THEN { << >> }
    ELSE { Append(t, token) : t \in ResponsesOfLength(n - 1), token \in ResponseTokens }

Responses == UNION { ResponsesOfLength(n) : n \in 0..MaxResponseTokens }

\* One call of _parse_clothing_detection_response(response), on any text.
InitParse ==
    /\ pc = "parse"
    /\ retry_config = DefaultRetryConfig
    /\ attempt = 0
    /\ delay = 0
    /\ last_error = NoError
    /\ last_failure_info = NoFailureInfo
    /\ request = Request(1, 1)
    /\ idx = 1
    /\ processed_user_photos = << >>
    /\ processed_clothing_items = << >>
    /\ prompt = None
    /\ content_parts = << >>
    /\ content = NoContent
    /\ max_retries = DefaultArgument
    /\ response \in Responses
    /\ exc = NoError
    /\ result = NoResult
    /\ prep_calls = 0
    /\ provider_calls = 0
    /\ sent = << >>
    /\ only_rate_limit = TRUE
    /\ detection = NoDetection
    /\ elapsed = Untracked
    /\ loop = NoLoop
    /\ call = NoCall
    /\ envelope = NoEnvelope

ParseDetection ==
    /\ pc = "parse"
    /\ detection' = _parse_clothing_detection_response(response)
    /\ pc' = "parsed"
    /\ UNCHANGED << elapsed, loop, call, envelope >>
    /\ UNCHANGED << request, retry_config, exc, result >>
    /\ UNCHANGED prepVars
    /\ UNCHANGED retryVars

NextParse == ParseDetection

SpecParse == InitParse /\ [][NextParse]_vars

\* -------------------------------------------------------- detect_clothing

\* _create_clothing_detection_prompt()
_create_clothing_detection_prompt == [template |-> "clothing_detection"]

\* The fixed negative result of lines 209-215 and 233-239.
NegativeDetection == ClothingDetectionResult(FALSE, "unknown", "poor", FALSE, 0)

\* What prepare_clothing_image_for_ai_bytes can do: raise, report failure, succeed.
DetectPrepOutcomes == { "raise", "fail", "ok" }

\* The tokens of the texts a provider call returns.
TokensOf(text) ==
    IF text = "text-a" THEN << "{", "\"is_clothing\": true", "\"quality\": \"good\"", "}" >>
                       ELSE << "shirt", "{" >>

\* Mutant: the early return of lines 208-215 is missing.
AfterDetectPreparation_NoEarlyReturn(success) == "retry_entry"

\* Lines 208-224: a failed preparation returns at once, a successful one goes
\* on to the retry client.
AfterDetectPreparation(success) == IF success THEN "retry_entry" ELSE "detect_done"

\* One call of detect_clothing(image_data).
InitDetect ==
    /\ pc = "detect_preparing"
    /\ request \in { [image_data |-> ClothingBytes(i)] : i \in 1..2 }
    /\ retry_config = DefaultRetryConfig
    /\ idx = 1
    /\ processed_user_photos = << >>
    /\ processed_clothing_items = << >>
    /\ prompt = None
    /\ content_parts = << >>
    /\ content = NoContent
    /\ max_retries = DefaultArgument
    /\ attempt = 0
    /\ last_error = NoError
    /\ last_failure_info = NoFailureInfo
    /\ delay = 0
    /\ response = None
    /\ exc = NoError
    /\ result = NoResult
    /\ prep_calls = 0
    /\ provider_calls = 0
    /\ sent = << >>
    /\ only_rate_limit = TRUE
    /\ detection = NoDetection
    /\ elapsed = Untracked
    /\ loop = NoLoop
    /\ call = NoCall
    /\ envelope = NoEnvelope

\* Lines 207-224: the preparation, the early return, the base64 text, the
\* prompt and the call _generate_content_with_retry(prompt, image_base64).
DetectPrepare ==
    /\ pc = "detect_preparing"
    /\ prep_calls' = prep_calls + 1
    /\ \E outcome \in DetectPrepOutcomes :
          IF outcome = "raise"
          THEN /\ exc' = CollaboratorError
               /\ pc' = "raised"
               /\ UNCHANGED << processed_clothing_items, prompt, content, detection >>
          ELSE LET image_base64 == B64Encode(ProcessedImage(request.image_data))
               IN  /\ exc' = exc
                   /\ pc' = AfterDetectPreparation(outcome = "ok")
                   /\ processed_clothing_items' =
                         IF outcome = "ok" THEN << image_base64 >> ELSE << >>
                   /\ IF AfterDetectPreparation(outcome = "ok") = "detect_done"
                      THEN /\ detection' = NegativeDetection
                           /\ UNCHANGED << prompt, content >>
                      ELSE /\ detection' = detection
                           /\ prompt' = _create_clothing_detection_prompt
                           /\ content' = StrContent(image_base64)
    /\ UNCHANGED << elapsed, loop, call, envelope >>
    /\ UNCHANGED << request, retry_config, result, idx, processed_user_photos >>
    /\ UNCHANGED << content_parts, max_retries, attempt, last_error, last_failure_info,
                    delay, response, provider_calls, sent, only_rate_limit >>

\* Lines 227-229: the response is parsed and the result returned.
DetectParse ==
    /\ pc = "returned"
    /\ detection' = _parse_clothing_detection_response(TokensOf(response))
    /\ pc' = "detect_done"
    /\ UNCHANGED << elapsed, loop, call, envelope >>
    /\ UNCHANGED << request, retry_config, exc, result >>
    /\ UNCHANGED prepVars
    /\ UNCHANGED retryVars

\* Lines 231-239: the except clause; an exception it does not catch leaves
\* detect_clothing.
DetectHandleException ==
    /\ pc = "raised"
    /\ IF CaughtByExceptException(exc.type_name)
       THEN /\ detection' = NegativeDetection
            /\ pc' = "detect_done"
       ELSE /\ detection' = detection
            /\ pc' = "escaped"
    /\ UNCHANGED << elapsed, loop, call, envelope >>
    /\ UNCHANGED << request, retry_config, exc, result >>
    /\ UNCHANGED prepVars
    /\ UNCHANGED retryVars

NextDetect ==
    \/ DetectPrepare
    \/ EnterRetry
    \/ ProviderCall
    \/ WakeUp
    \/ RaiseFinal
    \/ DetectParse
    \/ DetectHandleException

SpecDetect == InitDetect /\ [][NextDetect]_vars

\* ---------------------------------------------- utils: the response builders

\* An Optional[Dict] argument: None, or a dict.
NoneValue == [is_none |-> TRUE, value |-> << >>]
Some(dict) == [is_none |-> FALSE, value |-> dict]

\* `if x:` for an Optional[Dict]: None and the empty dict are falsy.
Truthy(optional) == ~optional.is_none /\ DOMAIN optional.value # { }

\* The Optional[Dict] arguments explored: None, {} and a dict with one key.
OptionalDicts == { NoneValue, Some(<< >>), Some([field |-> "user_id"]) }

ErrorCodes == { "VALIDATION_ERROR", "NOT_FOUND", "RATE_LIMITED", "INTERNAL_ERROR" }
Messages == { "Invalid input", "Not found", "Slow down", "Something went wrong" }
DataValues == { "image-a", "image-b", "image-c", "image-d" }

\* create_error_response(error_code, message, details)
create_error_response(error_code, message, details) ==
    IF Truthy(details)
    THEN [error |-> [code |-> error_code, message |-> message, details |-> details.value]]
    ELSE [error |-> [code |-> error_code, message |-> message]]

\* create_success_response(data, metadata)
create_success_response(data, metadata) ==
    IF Truthy(metadata)
    THEN [success |-> TRUE, data |-> data, metadata |-> metadata.value]
    ELSE [success |-> TRUE, data |-> data]

\* One call of one of the two builders, on any arguments.
InitEnvelope ==
    /\ pc = "build"
    /\ \/ \E c \in ErrorCodes, m \in Messages, d \in OptionalDicts :
             call = [function |-> "create_error_response", error_code |-> c,
                     message |-> m, details |-> d]
       \/ \E v \in DataValues, d \in OptionalDicts :
             call = [function |-> "create_success_response", data |-> v, metadata |-> d]
    /\ envelope = NoEnvelope
    /\ retry_config = DefaultRetryConfig
    /\ attempt = 0
    /\ delay = 0
    /\ last_error = NoError
    /\ last_failure_info = NoFailureInfo
    /\ request = Request(1, 1)
    /\ idx = 1
    /\ processed_user_photos = << >>
    /\ processed_clothing_items = << >>
    /\ prompt = None
    /\ content_parts = << >>
    /\ content = NoContent
    /\ max_retries = DefaultArgument
    /\ response = None
    /\ exc = NoError
    /\ result = NoResult
    /\ prep_calls = 0
    /\ provider_calls = 0
    /\ sent = << >>
    /\ only_rate_limit = TRUE
    /\ detection = NoDetection
    /\ elapsed = Untracked
    /\ loop = NoLoop

CreateErrorResponse ==
    /\ pc = "build"
    /\ call.function = "create_error_response"
    /\ envelope' = create_error_response(call.error_code, call.message, call.details)
    /\ pc' = "built"
    /\ UNCHANGED << detection, elapsed, loop, call >>
    /\ UNCHANGED << request, retry_config, exc, result >>
    /\ UNCHANGED prepVars
    /\ UNCHANGED retryVars

CreateSuccessResponse ==
    /\ pc = "build"
    /\ call.function = "create_success_response"
    /\ envelope' = create_success_response(call.data, call.metadata)
    /\ pc' = "built"
    /\ UNCHANGED << detection, elapsed, loop, call >>
    /\ UNCHANGED << request, retry_config, exc, result >>
    /\ UNCHANGED prepVars
    /\ UNCHANGED retryVars

NextEnvelope == CreateErrorResponse \/ CreateSuccessResponse

SpecEnvelope == InitEnvelope /\ [][NextEnvelope]_vars

\* ------------------------------------- concurrent requests on one event loop

\* The requests that run as tasks of the one event loop of the process, each in
\* _generate_content_with_retry. loop.running is the task that holds the
\* thread, 0 when the loop is idle; a task keeps the thread until it awaits
\* something that suspends it or ends.
Tasks == 1..NumTasks

Task(task_pc, task_attempt, task_delay, calls) ==
    [pc |-> task_pc, attempt |-> task_attempt, delay |-> task_delay,
     provider_calls |-> calls]

\* Mutant: the delay is a time.sleep, which keeps the thread.
RunningDuringSleep_Blocking(t) == t

\* Line 345: `await asyncio.sleep(delay)` hands the thread back to the loop.
RunningDuringSleep(t) == 0

InitLoop ==
    /\ pc = "loop"
    /\ loop = [running |-> 0, tasks |-> [t \in Tasks |-> Task("scheduled", 0, 0, 0)]]
    /\ retry_config = DefaultRetryConfig
    /\ max_retries = DefaultRetryConfig.max_retries
    /\ attempt = 0
    /\ delay = 0
    /\ last_error = NoError
    /\ last_failure_info = NoFailureInfo
    /\ request = Request(1, 1)
    /\ idx = 1
    /\ processed_user_photos = << >>
    /\ processed_clothing_items = << >>
    /\ prompt = None
    /\ content_parts = << >>
    /\ content = NoContent
    /\ response = None
    /\ exc = NoError
    /\ result = NoResult
    /\ prep_calls = 0
    /\ provider_calls = 0
    /\ sent = << >>
    /\ only_rate_limit = TRUE
    /\ detection = NoDetection
    /\ elapsed = Untracked
    /\ call = NoCall
    /\ envelope = NoEnvelope

LoopUnchanged ==
    /\ UNCHANGED << pc, detection, elapsed, call, envelope >>
    /\ UNCHANGED << request, retry_config, exc, result >>
    /\ UNCHANGED prepVars
    /\ UNCHANGED retryVars

\* The idle loop starts a scheduled task: it enters the for loop of line 324.
StartTask(t) ==
    /\ loop.running = 0
    /\ loop.tasks[t].pc = "scheduled"
    /\ loop' = [running |-> t,
                tasks |-> [loop.tasks EXCEPT ![t].pc =
                              IF InRange(0, max_retries) THEN "attempt" ELSE "raised"]]
    /\ LoopUnchanged

\* Lines 327-333: model.generate_content is entered; it is a synchronous call,
\* the task keeps the thread while it runs.
StartCall(t) ==
    /\ loop.running = t
    /\ loop.tasks[t].pc = "attempt"
    /\ loop' = [loop EXCEPT !.tasks[t].pc = "calling",
                            !.tasks[t].provider_calls = @ + 1]
    /\ LoopUnchanged

\* Lines 335-348: the call returns a response, or raises and the task sleeps
\* or stops.
EndCall(t) ==
    /\ loop.running = t
    /\ loop.tasks[t].pc = "calling"
    /\ \/ loop' = [running |-> 0, tasks |-> [loop.tasks EXCEPT ![t].pc = "returned"]]
       \/ \E e \in ProviderErrors, draw \in LoopJitterDraws :
             LET info == _classify_failure(e)
                 a == loop.tasks[t].attempt
             IN  IF ShouldRetry(a, max_retries, info)
                 THEN loop' = [running |-> RunningDuringSleep(t),
                               tasks |-> [loop.tasks EXCEPT
                                  ![t].pc = "sleeping",
                                  ![t].delay = _calculate_retry_delay(a, retry_config, draw)]]
                 ELSE loop' = [running |-> 0,
                               tasks |-> [loop.tasks EXCEPT ![t].pc = "raised"]]
    /\ LoopUnchanged

\* The delay of a sleeping task is over and the thread is there for it: the
\* task goes on with the next attempt.
Resume(t) ==
    /\ loop.tasks[t].pc = "sleeping"
    /\ loop.running = RunningDuringSleep(t)
    /\ LET a == NextAttempt(loop.tasks[t].attempt)
       IN  loop' = [running |-> t,
                    tasks |-> [loop.tasks EXCEPT
                       ![t].attempt = a,
                       ![t].delay = 0,
                       ![t].pc = IF InRange(a, max_retries) THEN "attempt" ELSE "raised"]]
    /\ LoopUnchanged

\* Every step task t can take.
TaskStep(t) == StartTask(t) \/ StartCall(t) \/ EndCall(t) \/ Resume(t)

NextLoop ==
    \/ \E t \in Tasks : StartTask(t)
    \/ \E t \in Tasks : StartCall(t)
    \/ \E t \in Tasks : EndCall(t)
    \/ \E t \in Tasks : Resume(t)

SpecLoop == InitLoop /\ [][NextLoop]_vars

\* ----------------------------------------------------------------- claims

\* The failure kind a result carries: metadata['failure_type'], None without it.
FailureKindOf(r) ==
    IF r.metadata.kind = "failure" THEN r.metadata.failure_type ELSE None

EmptyRequest ==
    Len(request.user_base_photos) = 0 \/ Len(request.clothing_items) = 0

OversizeRequest ==
    \/ Len(request.user_base_photos) > MaxUserPhotos
    \/ Len(request.clothing_items) > MaxClothingItems

\* C1: a request with an empty photo or clothing sequence ends in a failure
\* result whose failure kind is invalid-request, with no provider call made.
C1_EmptyRequestIsInvalidRequest ==
    (pc = "done" /\ EmptyRequest) =>
        /\ result.returned
        /\ ~result.success
        /\ FailureKindOf(result) = "invalid_request"
        /\ provider_calls = 0

\* C2: a request with more than 3 photos or more than 5 clothing items fails
\* with neither the image-preparation collaborator nor the provider ever called.
C2_OversizeFailsBeforePreparation ==
    OversizeRequest =>
        /\ prep_calls = 0
        /\ provider_calls = 0
        /\ pc \in { "validating", "done" }
        /\ pc = "done" => (result.returned /\ ~result.success)

C2_Witness ==
    /\ pc = "done"
    /\ Len(request.clothing_items) > MaxClothingItems
    /\ Len(request.user_base_photos) \in 1..MaxUserPhotos
    /\ result.returned
    /\ ~result.success

\* Exactly one variant of a result is populated.
ExactlyOneVariant(r) ==
    \/ r.success /\ r.generated_image # None /\ r.error = None
    \/ ~r.success /\ r.error # None /\ r.generated_image = None

\* C10: no error leaves process_virtual_try_on; an error raised on the way gives
\* a returned result with success false, and every returned result has exactly
\* one variant populated.
C10_NoErrorEscapes ==
    /\ pc # "escaped"
    /\ pc = "done" =>
          /\ result.returned
          /\ ExactlyOneVariant(result)
          /\ exc.type_name # None => ~result.success

C10_Witness ==
    /\ pc = "done"
    /\ exc = FinalException(last_failure_info)
    /\ provider_calls > 1
    /\ ~result.success
    /\ result.generated_image = None

\* The kinds the failure table marks as not retryable.
NonRetryableKinds ==
    { "api_authentication", "content_policy_violation", "invalid_request" }

\* The keywords of the quota-exceeded entry, which is tested before rate-limited.
QuotaKeywords == { "quota exceeded", "quota limit", "usage limit", "billing" }

\* C3, as stated: if every provider call failed with "rate limit" in its message,
\* the call made max_retries + 1 provider calls and its failure is rate-limited.
C3_AlwaysRateLimit_Original ==
    (pc = "raised" /\ only_rate_limit) =>
        /\ provider_calls = max_retries + 1
        /\ last_failure_info.failure_type = "api_rate_limit"

\* C3, amended: under the same condition the call made max_retries + 1 provider
\* calls, and its failure is rate-limited unless the last message also holds a
\* quota-exceeded keyword, in which case it is quota-exceeded.
C3_AlwaysRateLimit ==
    (pc = "raised" /\ only_rate_limit) =>
        /\ provider_calls = max_retries + 1
        /\ last_failure_info.failure_type =
              IF \E k \in QuotaKeywords : Contains(Lower(last_error.text), k)
              THEN "api_quota_exceeded" ELSE "api_rate_limit"

C3_Witness ==
    /\ pc = "raised"
    /\ only_rate_limit
    /\ max_retries >= 2
    /\ provider_calls = max_retries + 1
    /\ last_failure_info.failure_type = "api_rate_limit"

\* C4: once a provider call has failed with a non-retryable kind, no further
\* provider call is made, whatever attempts remain.
C4_NonRetryableStops ==
    [][last_failure_info.failure_type \in NonRetryableKinds
          => provider_calls' = provider_calls]_vars

C4_Witness ==
    /\ pc = "raised"
    /\ last_failure_info.failure_type = "api_authentication"
    /\ provider_calls = 1
    /\ max_retries >= 1

\* C5: a provider call that succeeds ends the retry client at once: it has
\* returned that response, after as many calls as the failed attempts plus one.
C5_SuccessEndsLoop ==
    response # None =>
        /\ pc = "returned"
        /\ response \in ResponseTexts
        /\ provider_calls = attempt + 1
        /\ provider_calls <= max_retries + 1

C5_Witness ==
    /\ pc = "returned"
    /\ max_retries = 2
    /\ attempt = 1
    /\ provider_calls = 2
    /\ last_failure_info.retryable

\* C6: one call of the retry client makes at most max_retries + 1 provider calls
\* and ends, returning a text or raising its final failure.
C6_BoundedAndTerminates ==
    /\ [](pc # "retry_entry" => provider_calls <= max_retries + 1)
    /\ <>(pc \in { "returned", "raised" })

C6_Witness ==
    /\ pc = "raised"
    /\ max_retries = MaxRetriesBound
    /\ provider_calls = max_retries + 1

\* Whether one of the keywords occurs in the lower-cased text of the error.
HasKeyword(error, keywords) ==
    \E k \in keywords : \E i \in 1..Len(error.text) :
        k \in KeywordsIn(LowerFragment(error.text[i]))

\* The kind the decision list of C7 gives an error.
DecisionListKind(error) ==
    IF HasKeyword(error, QuotaKeywords) THEN "api_quota_exceeded"
    ELSE IF HasKeyword(error, { "rate limit", "too many requests", "throttled", "429" })
    THEN "api_rate_limit"
    ELSE IF HasKeyword(error, { "timeout", "timed out", "request timeout",
                                "deadline exceeded" })
    THEN "api_timeout"
    ELSE IF HasKeyword(error, { "unauthorized", "authentication", "invalid key",
                                "401", "403" })
    THEN "api_authentication"
    ELSE IF HasKeyword(error, { "server error", "internal error", "500", "502",
                                "503", "504" })
    THEN "api_server_error"
    ELSE IF HasKeyword(error, { "content policy", "safety", "inappropriate", "blocked" })
    THEN "content_policy_violation"
    ELSE IF TypeNameContainsTimeout(error.type_name) THEN "api_timeout"
    ELSE IF HasKeyword(error, { "connection", "network" }) THEN "api_server_error"
    ELSE IF HasKeyword(error, { "image", "processing" }) THEN "image_processing_error"
    ELSE "unknown_error"

\* C7: the classifier is the fixed decision list: the first kind in the order
\* quota-exceeded, rate-limited, timeout, authentication, server-error,
\* content-policy-violation with a keyword in the lower-cased text; else timeout
\* for a type name containing "timeout", else server-error for "connection" or
\* "network", else image-processing-error for "image" or "processing", else unknown.
C7_ClassifierIsDecisionList ==
    pc = "classified" =>
        /\ last_failure_info.failure_type = DecisionListKind(last_error)
        /\ last_failure_info.error_message = last_error.text

C7_Witness ==
    /\ pc = "classified"
    /\ last_error.text = << "429", "QUOTA EXCEEDED" >>
    /\ last_failure_info.failure_type = "api_quota_exceeded"

\* C8: with jitter disabled the delay is 0 for attempt 0 and
\* min(base_delay * backoff_multiplier^(attempt - 1), max_delay) for attempt >= 1.
C8_DelayWithoutJitter ==
    (pc = "delayed" /\ ~retry_config.jitter) =>
        IF attempt = 0 THEN delay = 0
        ELSE LET m == retry_config.backoff_multiplier
                 e == attempt - 1
             IN  delay * Pow(m.den, e) =
                    Min(retry_config.base_delay * Scale * Pow(m.num, e),
                        retry_config.max_delay * Scale * Pow(m.den, e))

C8_Witness ==
    /\ pc = "delayed"
    /\ ~retry_config.jitter
    /\ attempt = 3
    /\ retry_config.base_delay = 10
    /\ retry_config.backoff_multiplier = [num |-> 3, den |-> 2]
    /\ retry_config.max_delay = 40
    /\ 2 * delay = 45 * Scale

\* C9: for positive base_delay and max_delay and a multiplier of at least 1, the
\* delay is never negative and never more than max_delay * 1.3.
C9_DelayWithinBounds ==
    ( /\ pc = "delayed"
      /\ retry_config.base_delay > 0
      /\ retry_config.max_delay > 0
      /\ retry_config.backoff_multiplier.num >= retry_config.backoff_multiplier.den ) =>
        /\ delay >= 0
        /\ 10 * delay <= 13 * retry_config.max_delay * Scale

C9_Witness ==
    /\ pc = "delayed"
    /\ retry_config.jitter
    /\ retry_config.base_delay > 0
    /\ retry_config.backoff_multiplier.num >= retry_config.backoff_multiplier.den
    /\ attempt >= 1
    /\ 10 * delay = 13 * retry_config.max_delay * Scale

\* Whether a VirtualTryOnResult is a returned failure.
ReturnedFailure(r) == r.returned /\ ~r.success

\* The messages _validate_request words for the user.
ValidationMessages ==
    { "No user base photos provided", "No clothing items selected",
      "Too many user base photos (max 3)", "Too many clothing items (max 5)" }

\* C11: every failure result carries a non-technical user message as its error,
\* a suggested action and a retryable flag, and the raw technical text only in
\* the technical_error field.
C11_FailuresCarryGuidance ==
    (pc = "done" /\ ReturnedFailure(result)) =>
        /\ result.error \in UserMessages \cup ValidationMessages
        /\ result.metadata.kind = "failure"
        /\ result.metadata.suggested_action # None
        /\ result.metadata.retryable \in BOOLEAN
        /\ result.metadata.technical_error = exc.text

\* The states of _prepare_images_for_ai.
PreparingStates == { "preparing_photos", "preparing_clothing" }

\* The buffer the preparation loop is at.
CurrentBuffer ==
    IF pc = "preparing_photos" THEN request.user_base_photos[idx]
                               ELSE request.clothing_items[idx]

\* One preparation step either drops the current buffer or appends its
\* prepared image after those already kept.
DropsOrAppends(processed_before, processed_after) ==
    \/ processed_after = processed_before
    \/ processed_after =
           Append(processed_before, B64Encode(ProcessedImage(B64Decode(CurrentBuffer))))

\* A preparation step that stays in preparation or enters generating, and
\* keeps what was already prepared in order.
PreparationStepKeepsGoing ==
    pc \in PreparingStates =>
        /\ pc' \in PreparingStates \cup { "generating" }
        /\ DropsOrAppends(processed_user_photos, processed_user_photos')
        /\ DropsOrAppends(processed_clothing_items, processed_clothing_items')

\* C12: during preparation a buffer whose preparation fails is dropped, the
\* others keep their relative order, and the request is never failed by one
\* image: every preparation step stays in preparation or enters generating.
C12_FailedImageIsDropped == [][PreparationStepKeepsGoing]_vars

\* C18: the failure the retry client raises is built from its last attempt
\* only: the user message of the kind of the last error, then that error's raw
\* text, whatever the earlier attempts raised.
C18_FinalFailureFromLastAttempt ==
    pc = "raised" =>
        exc.text = << failure_messages(DecisionListKind(last_error)).user_message,
                      "(Technical: " >> \o last_error.text \o << ")" >>

\* A retryable failure, then Unauthorized: authentication surfaces after 2 calls.
C18_Witness ==
    /\ pc = "raised"
    /\ provider_calls = 2
    /\ attempt = 1
    /\ last_error.text = << "Unauthorized" >>
    /\ exc.text = << "Authentication failed. Please contact support.",
                     "(Technical: ", "Unauthorized", ")" >>

\* One inline image part per element of `images`, in their order.
InlineParts(images) == [i \in 1..Len(images) |-> InlinePart(images[i])]

\* C19: what every attempt hands to the provider is the prompt exactly once,
\* then one inline part per prepared photo in request order, then one per
\* prepared clothing item in request order, and nothing else.
C19_ContentIsPromptThenImages ==
    provider_calls >= 1 =>
        sent = << prompt >> \o InlineParts(processed_user_photos)
                            \o InlineParts(processed_clothing_items)

\* The inline parts a role can contribute to the content.
PhotoParts ==
    { InlinePart(B64Encode(ProcessedImage(PhotoBytes(i)))) : i \in 1..MaxPhotosInRequest }
ClothingParts ==
    { InlinePart(B64Encode(ProcessedImage(ClothingBytes(i)))) : i \in 1..MaxClothingInRequest }

NoPartOf(parts, role_parts) == \A i \in 1..Len(parts) : parts[i] \notin role_parts

\* A role of the request has no prepared image left.
SomeRoleEmpty ==
    Len(processed_user_photos) = 0 \/ Len(processed_clothing_items) = 0

\* With a role left empty, the end of the preparation enters generating, and
\* generating goes on to the provider call with the counts of what was kept.
EmptyRoleGoesOn ==
    SomeRoleEmpty' =>
        /\ (pc = "preparing_clothing" /\ pc' \notin { "preparing_clothing", "raised" })
              => pc' = "generating"
        /\ pc = "generating" =>
              /\ pc' = "retry_entry"
              /\ prompt'.user_photos_count = Len(processed_user_photos)
              /\ prompt'.clothing_count = Len(processed_clothing_items)
        /\ pc = "retry_entry" => pc' = "attempt"
        /\ pc = "attempt" => provider_calls' = provider_calls + 1

\* What the provider is called with when a role is empty, and how it ends.
EmptyRoleCall ==
    provider_calls >= 1 =>
        /\ Len(processed_user_photos) = 0 =>
              prompt.user_photos_count = 0 /\ NoPartOf(sent, PhotoParts)
        /\ Len(processed_clothing_items) = 0 =>
              prompt.clothing_count = 0 /\ NoPartOf(sent, ClothingParts)
        /\ SomeRoleEmpty => FailureKindOf(result) # "invalid_request"

\* C20: when the preparation drops every image of a role, the request still
\* enters generating and calls the provider, with no part and the count 0 for
\* that role, and does not fail as an invalid request.
C20_EmptyRoleStillGenerates == [][EmptyRoleGoesOn]_vars /\ []EmptyRoleCall

C20_Witness ==
    /\ _validate_request(request).valid
    /\ provider_calls >= 1
    /\ Len(processed_clothing_items) = 0
    /\ Len(processed_user_photos) >= 1
    /\ prompt.clothing_count = 0
    /\ prep_calls = Len(request.user_base_photos) + Len(request.clothing_items)

\* What the keyword scan of a response gives.
KeywordScan(text) ==
    LET found == \E i \in 1..Len(text) :
                    DetectionWordsIn(LowerToken(text[i])) \cap DetectionWords # { }
    IN  ClothingDetectionResult(found, "unknown", "fair", found, IF found THEN 5 ELSE 0)

HasBrace(text) == \E i \in 1..Len(text) : text[i] = "{"

\* The text from the first "{" to the last "}" is not a JSON object.
NotParsable(text) ==
    ~JsonLoads(Slice(text, Find(text, "{"), RFind(text, "}") + 1)).ok

\* C13: for a response with a "{" whose text from the first "{" to the last "}"
\* cannot be parsed as JSON, the parser returns the keyword-scan result.
C13_ParseFailureFallsBack ==
    (pc = "parsed" /\ HasBrace(response) /\ NotParsable(response)) =>
        detection = KeywordScan(response)

\* C14: for a response with no "{", the parser returns the keyword-scan result:
\* is_clothing and suitable exactly when the lower-cased text has one of the
\* words, category unknown, quality fair, confidence 0.5 or 0.0.
C14_NoBraceIsKeywordScan ==
    (pc = "parsed" /\ ~HasBrace(response)) => detection = KeywordScan(response)

\* A capitalised word and a "}" without any "{".
C14_Witness ==
    /\ pc = "parsed"
    /\ response = << "Dress", "}" >>
    /\ detection = ClothingDetectionResult(TRUE, "unknown", "fair", TRUE, 5)

\* What the claim says of a success response.
SuccessEnvelopeAsClaimed ==
    /\ "success" \in DOMAIN envelope
    /\ envelope.success = TRUE
    /\ "data" \in DOMAIN envelope
    /\ envelope.data = call.data

\* What the claim says of an error response.
ErrorEnvelopeAsClaimed ==
    /\ "success" \in DOMAIN envelope
    /\ envelope.success = FALSE
    /\ "error" \in DOMAIN envelope
    /\ envelope.error.code = call.error_code
    /\ envelope.error.message = call.message
    /\ "details" \in DOMAIN envelope.error => ~call.details.is_none

\* C15: create_success_response gives success = true and the data;
\* create_error_response gives success = false and an error object with the code
\* and the message, and details only when details were given.
C15_EnvelopeShape ==
    pc = "built" =>
        IF call.function = "create_success_response"
        THEN SuccessEnvelopeAsClaimed
        ELSE ErrorEnvelopeAsClaimed

\* Task t has ended, with a response or with its final failure.
Ended(t) == loop.tasks[t].pc \in { "returned", "raised" }

\* C16: while a request is suspended in its backoff delay, any other request
\* that has not ended can take a step, unless a third request holds the thread:
\* the sleeper does not hold it.
C16_SleepYields ==
    \A a \in Tasks, b \in Tasks :
        ( /\ a # b
          /\ loop.tasks[a].pc = "sleeping"
          /\ ~Ended(b)
          /\ loop.running \in { 0, a, b } )
        => ENABLED TaskStep(b)

\* Request 2 is inside a provider call while request 1 sleeps.
C16_Witness ==
    /\ pc = "loop"
    /\ loop.tasks[1].pc = "sleeping"
    /\ loop.tasks[1].delay > 0
    /\ loop.tasks[2].pc = "calling"
    /\ loop.running = 2

\* A step taken past the ceiling starts no provider call.
NoCallPastCeiling ==
    elapsed > max_processing_time * 10 => provider_calls' = provider_calls

\* C17: once the time elapsed since the start of the request exceeds the
\* 60-second ceiling, no new provider attempt is started.
C17_NoAttemptPastCeiling == [][NoCallPastCeiling]_vars

\* C21: the failure kind of a try-on result is the kind the retry client gave
\* its last failed attempt: classifying the wrapped final error again gives the
\* same kind, for every raw text and error type.
C21_ReclassificationKeepsKind ==
    (pc = "done" /\ ReturnedFailure(result)) =>
        /\ FailureKindOf(result) = last_failure_info.failure_type
        /\ FailureKindOf(result) = DecisionListKind(last_error)

\* An error classified through its type name only keeps its kind.
C21_Witness ==
    /\ pc = "done"
    /\ last_error = [text |-> << "oops" >>, type_name |-> "TimeoutError"]
    /\ exc.type_name = "Exception"
    /\ FailureKindOf(result) = "api_timeout"

\* d of the claim for the attempt that failed, times Scale and times the
\* denominator of the multiplier's power.
UncappedTimesDen ==
    LET m == retry_config.backoff_multiplier
    IN  Min(retry_config.base_delay * Scale * Pow(m.num, attempt - 1),
            retry_config.max_delay * Scale * Pow(m.den, attempt - 1))

\* C22: the delay slept after the failure of attempt i is 0 for i = 0 and lies
\* between d and 1.3 * d for i >= 1, d = min(base_delay * multiplier^(i-1),
\* max_delay): it depends on i and the policy, not on the kind's retry-after.
C22_SleepIsBackoffDelay ==
    pc = "sleeping" =>
        IF attempt = 0 THEN delay = 0
        ELSE LET den == Pow(retry_config.backoff_multiplier.den, attempt - 1)
             IN  /\ delay * den >= UncappedTimesDen
                 /\ 10 * delay * den <= 13 * UncappedTimesDen
                 /\ ~retry_config.jitter => delay * den = UncappedTimesDen

\* The second retry under the capping policy: 1.5 s and 30 % of jitter.
C22_Witness ==
    /\ pc = "sleeping"
    /\ attempt = 2
    /\ retry_config.max_delay = 15
    /\ last_failure_info.retry_after_seconds = 300
    /\ 100 * delay = 1950 * Scale

\* The retries the retry client made: its provider calls beyond the first.
RetriesMade == IF provider_calls >= 1 THEN provider_calls - 1 ELSE 0

\* C23: the retry_count of every returned VirtualTryOnResult is the number of
\* retries the retry client made for the request.
C23_RetryCountIsRetries ==
    (pc = "done" /\ result.returned) => result.retry_count = RetriesMade

\* The preparation of detect_clothing has run and left no image: it reported
\* failure or raised.
DetectPreparationFailed == prep_calls = 1 /\ Len(processed_clothing_items) = 0

\* C24: detect_clothing lets no error escape; after a preparation that reports
\* failure no provider call is made; and when the preparation fails or raises,
\* or the retry client ends in its final failure, the result is the fixed
\* negative result.
C24_DetectNeverEscapes ==
    /\ pc # "escaped"
    /\ DetectPreparationFailed => provider_calls = 0
    /\ (pc = "detect_done" /\ (DetectPreparationFailed \/ exc # NoError)) =>
          detection = NegativeDetection
    /\ pc = "detect_done" => detection.returned

\* The retry client gave up after its retries and the caller got the negative result.
C24_Witness ==
    /\ pc = "detect_done"
    /\ provider_calls = 4
    /\ exc.type_name = "Exception"
    /\ detection = NegativeDetection

====
